---- MODULE Spec2Model ----
(***************************************************************************)
(* WinPR timers (winpr/libwinpr/synch/timer.c): the timer queue with its   *)
(* worker thread, and the waitable timer with its two backing resources.   *)
(* The model follows the build with WITH_POSIX_TIMER and HAVE_TIMERFD_H    *)
(* defined, on an LP64 target (long is 64 bits wide).                      *)
(***************************************************************************)
EXTENDS Integers, Sequences, FiniteSets, TLC

\* ---------------------------------------------------------------- bounds
MaxTimers == 3      \* timer-queue entries that can be registered
MaxTime == 3        \* clock ticks (ms) the model lets pass
MaxFire == 2        \* cap on an entry's FireCount
ClockStart == 998   \* clock reading (ms) when the queue is created

\* -------------------------------------------------------------- pointers
\* A pointer is NULL, the address of entry 1..MaxTimers, or WILD: a non-null
\* indeterminate value, the address of no object; reading or writing through
\* it is an invalid access, on which the process dies.
NULL == 0
WILD == -1
TimerIds == 1..MaxTimers
Ptr == {NULL, WILD} \cup TimerIds

\* What malloc'ed, never written memory holds when read as a pointer: NULL
\* or a non-null indeterminate value.
Garbage == {NULL, WILD}

\* ------------------------------------------------------------- timespec
NSEC_PER_SEC == 1000000000
NSEC_PER_MSEC == 1000000
IdleInterval == 20

TS(s, n) == [tv_sec |-> s, tv_nsec |-> n]
ZeroTime == TS(0, 0)

\* The low 32 bits of (ms * 1000000), the UINT32 product of line 331, as its
\* quotient and remainder by 10^9.  The product is formed in 16-bit limbs so
\* that no intermediate value leaves the checker's integer range.
U32MulMillion(ms) ==
  LET mh == (ms \div 65536) % 65536
      ml == ms % 65536
      \* 1000000 = 15 * 65536 + 16960
      low == ml * 16960
      pl == low % 65536
      ph == (mh * 16960 + ml * 15 + (low \div 65536)) % 65536
      \* k * 10^9 in limbs: 10^9 = 15258 * 65536 + 51712
      KH(k) == k * 15258 + ((k * 51712) \div 65536)
      KL(k) == (k * 51712) % 65536
      GE(k) == (ph > KH(k)) \/ (ph = KH(k) /\ pl >= KL(k))
      q == CHOOSE k \in 0..4 : GE(k) /\ (k = 4 \/ ~GE(k + 1))
  IN [q |-> q, r |-> (ph - KH(q)) * 65536 + (pl - KL(q))]

\* static void timespec_add_ms(struct timespec* tspec, UINT32 ms)
timespec_add_ms(tspec, ms) ==
  LET p == U32MulMillion(ms)
      \* ns = tv_nsec + p (UINT64); ns / 10^9 and ns % 10^9
      part == tspec.tv_nsec + p.r
  IN TS(tspec.tv_sec + p.q + (part \div NSEC_PER_SEC), part % NSEC_PER_SEC)

\* static void timespec_gettimeofday(struct timespec* tspec), the clock read
\* at millisecond t
timespec_gettimeofday(t) == TS(t \div 1000, (t % 1000) * NSEC_PER_MSEC)

\* static int timespec_compare(tspec1, tspec2)
timespec_compare(tspec1, tspec2) ==
  IF tspec1.tv_sec < tspec2.tv_sec THEN -1
  ELSE IF tspec1.tv_sec > tspec2.tv_sec THEN 1
  ELSE tspec1.tv_nsec - tspec2.tv_nsec

\* ---------------------------------------------------------------- state
VARIABLES
  now,          \* the clock, in ms
  queue,        \* the WINPR_TIMER_QUEUE block: "live" or "freed"
  cond_mutex,   \* timerQueue->cond_mutex: "unlocked", "locked", "destroyed"
  head,         \* timerQueue->head
  timers,       \* the WINPR_TIMER_QUEUE_TIMER blocks, by address
  worker,       \* TimerQueueThread: its position and its locals, and
                \* (history) the entries the current fire pass has fired
  fault,        \* the process has died on an invalid memory access
  uafTimers,    \* history: freed entries the worker has dereferenced
  uafQueue,     \* history: the worker has used the queue after it was freed
  callers,      \* the threads inside CreateTimerQueueTimer: position, locals
  wtimer,       \* the WINPR_TIMER block of the waitable timer
  kfd,          \* the timerfd behind timer->fd, as the kernel holds it
  ktid,         \* the POSIX timer behind timer->tid, as the kernel holds it
  g_WaitableTimerSignalHandlerInstalled,
  installers,   \* the threads inside InstallWaitableTimerSignalHandler
  wtCall,       \* history: the arguments and result of the last SetWaitableTimer
  wtLog         \* history: the expirations since the last arming, with the
                \* time from that arming to each

qvars == <<now, queue, cond_mutex, head, timers, worker, fault,
           uafTimers, uafQueue>>
wvars == <<wtimer, kfd, ktid, g_WaitableTimerSignalHandlerInstalled,
           installers, wtCall, wtLog>>
vars == <<qvars, callers, wvars>>

\* ------------------------------------------------------------ the chain
BlankTimer == [alloc |-> "unalloc", StartTime |-> ZeroTime,
               ExpirationTime |-> ZeroTime, Period |-> 0, FireCount |-> 0,
               next |-> NULL]

Freed(T, ids) == {i \in ids : i \in TimerIds /\ T[i].alloc = "freed"}

\* The while loop of InsertTimerQueueTimer (lines 373-379), started at node:
\* the node it stops at and the nodes it has read (seen).  Following WILD is
\* an invalid access, and a walk round a cycle never returns: either way the
\* thread makes no further step ("fault").
RECURSIVE InsertWalk(_, _, _, _)
InsertWalk(T, timer, node, seen) ==
  IF node = WILD \/ node \in seen
    THEN [st |-> "fault", node |-> node, seen |-> seen]
  ELSE IF T[node].next = NULL
    THEN [st |-> "ok", node |-> node, seen |-> seen \cup {node}]
  ELSE IF timespec_compare(T[timer].ExpirationTime, T[node].ExpirationTime) < 0
    THEN [st |-> "ok", node |-> node, seen |-> seen \cup {node}]
  ELSE InsertWalk(T, timer, T[node].next, seen \cup {node})

\* void InsertTimerQueueTimer(WINPR_TIMER_QUEUE_TIMER** pHead, timer), run
\* without interruption on head h and blocks T.  touched: the blocks read or
\* written through a pointer.
InsertTimerQueueTimer(h, T, timer) ==
  IF h = NULL
    THEN [st |-> "ok", head |-> timer, timers |-> T, touched |-> {}]
  ELSE
    LET w == InsertWalk(T, timer, h, {})
    IN IF w.st # "ok"
         THEN [st |-> w.st, head |-> h, timers |-> T, touched |-> w.seen]
       ELSE
         LET node == w.node
             succ == T[node].next
         IN IF succ = NULL
              THEN [st |-> "ok", head |-> h,
                    timers |-> [T EXCEPT ![node].next = timer],
                    touched |-> w.seen]
            ELSE IF succ = WILD
              THEN [st |-> "fault", head |-> h, timers |-> T, touched |-> w.seen]
            ELSE
              LET T1 == [T EXCEPT ![timer].next = T[succ].next]
              IN [st |-> "ok", head |-> h,
                  timers |-> [T1 EXCEPT ![node].next = timer],
                  touched |-> w.seen \cup {succ}]

\* The entries reachable from pointer p by following next, in order, up to
\* the first NULL, WILD or repeated entry.
RECURSIVE ChainFrom(_, _, _)
ChainFrom(T, p, seen) ==
  IF p \notin TimerIds \/ p \in seen THEN <<>>
  ELSE <<p>> \o ChainFrom(T, T[p].next, seen \cup {p})

Chain == ChainFrom(timers, head, {})
Range(s) == {s[i] : i \in 1..Len(s)}
Reachable == Range(Chain)

\* How the walk from pointer p ends: "null", "wild" or "cycle".
RECURSIVE ChainEnd(_, _, _)
ChainEnd(T, p, seen) ==
  IF p = NULL THEN "null"
  ELSE IF p = WILD THEN "wild"
  ELSE IF p \in seen THEN "cycle"
  ELSE ChainEnd(T, T[p].next, seen \cup {p})

\* ------------------------------------------------------------- initially
\* CreateTimerQueue (lines 472-488) mallocs the queue and starts the worker;
\* nothing writes timerQueue->head, which is read as whatever malloc left.
CallerIdle == [pc |-> "idle", node |-> NULL]

WorkerIdle == [pc |-> "lock", timeout |-> ZeroTime, CurrentTime |-> ZeroTime,
               node |-> NULL, fired |-> {}]

QInit ==
  /\ now = ClockStart
  /\ queue = "live"
  /\ cond_mutex = "unlocked"
  /\ head \in {NULL, WILD}
  /\ timers = [i \in TimerIds |-> BlankTimer]
  /\ worker = WorkerIdle
  /\ fault = FALSE
  /\ uafTimers = {}
  /\ uafQueue = FALSE

Running == ~fault

\* The process dies on an invalid memory access: nothing of it is left.
Die ==
  /\ fault' = TRUE
  /\ now' = ClockStart
  /\ queue' = "freed"
  /\ cond_mutex' = "destroyed"
  /\ head' = NULL
  /\ timers' = [i \in TimerIds |-> BlankTimer]
  /\ worker' = WorkerIdle
  /\ uafTimers' = {}
  /\ uafQueue' = FALSE
  /\ callers' = [i \in TimerIds |-> CallerIdle]
  /\ UNCHANGED wvars

\* ------------------------------------------------------------- the clock
Tick ==
  /\ Running
  /\ now < ClockStart + MaxTime
  /\ now' = now + 1
  /\ UNCHANGED <<queue, cond_mutex, head, timers, worker, fault,
                 uafTimers, uafQueue, callers, wvars>>

\* ------------------------------------------------- TimerQueueThread
\* The block the worker's next step reads through a pointer.
WorkerTarget ==
  IF worker.pc = "compute" THEN head
  ELSE IF worker.pc = "fire" THEN worker.node
  ELSE NULL

\* History kept by every step of the worker: it uses timerQueue, and the
\* blocks in ids.
WorkerUses(ids) ==
  /\ uafQueue' = (uafQueue \/ queue = "freed")
  /\ uafTimers' = uafTimers \cup Freed(timers, ids)

\* pthread_mutex_lock(&timerQueue->cond_mutex), line 434
W_Lock ==
  /\ Running
  /\ worker.pc = "lock"
  /\ cond_mutex # "locked"
  /\ cond_mutex' = IF cond_mutex = "destroyed" THEN "destroyed" ELSE "locked"
  /\ worker' = [worker EXCEPT !.pc = "compute"]
  /\ WorkerUses({})
  /\ UNCHANGED <<now, queue, head, timers, fault, callers, wvars>>

\* A worker that sleeps twice the interval on an empty chain
W_ComputeLongIdle ==
  /\ Running
  /\ worker.pc = "compute"
  /\ head # WILD
  /\ worker' = [worker EXCEPT
       !.pc = "wait",
       !.timeout = IF head = NULL
                     THEN timespec_add_ms(timespec_gettimeofday(now), 2 * IdleInterval)
                     ELSE timers[head].ExpirationTime]
  /\ cond_mutex' = IF cond_mutex = "destroyed" THEN "destroyed" ELSE "unlocked"
  /\ WorkerUses({head})
  /\ UNCHANGED <<now, queue, head, timers, fault, callers, wvars>>

\* Lines 436-446: the wake time, then pthread_cond_timedwait, which releases
\* the mutex while it waits.
W_Compute ==
  /\ Running
  /\ worker.pc = "compute"
  /\ head # WILD
  /\ worker' = [worker EXCEPT
       !.pc = "wait",
       !.timeout = IF head = NULL
                     THEN timespec_add_ms(timespec_gettimeofday(now), IdleInterval)
                     ELSE timers[head].ExpirationTime]
  /\ cond_mutex' = IF cond_mutex = "destroyed" THEN "destroyed" ELSE "unlocked"
  /\ WorkerUses({head})
  /\ UNCHANGED <<now, queue, head, timers, fault, callers, wvars>>

TimeoutReached ==
  timespec_compare(timespec_gettimeofday(now), worker.timeout) >= 0

\* pthread_cond_timedwait returns at the wake time, with the mutex held.
W_Timeout ==
  /\ Running
  /\ worker.pc = "wait"
  /\ TimeoutReached
  /\ cond_mutex # "locked"
  /\ cond_mutex' = IF cond_mutex = "destroyed" THEN "destroyed" ELSE "locked"
  /\ worker' = [worker EXCEPT !.pc = "fire_enter", !.timeout = ZeroTime]
  /\ WorkerUses({})
  /\ UNCHANGED <<now, queue, head, timers, fault, callers, wvars>>

\* pthread_cond_timedwait may return before the wake time (a spurious wake;
\* nothing in the file signals the condition variable).
W_Spurious ==
  /\ Running
  /\ worker.pc = "wait"
  /\ ~TimeoutReached
  /\ cond_mutex # "locked"
  /\ cond_mutex' = IF cond_mutex = "destroyed" THEN "destroyed" ELSE "locked"
  /\ worker' = [worker EXCEPT !.pc = "fire_enter", !.timeout = ZeroTime]
  /\ WorkerUses({})
  /\ UNCHANGED <<now, queue, head, timers, fault, callers, wvars>>

\* FireExpiredTimerQueueTimers, lines 392-397
W_FireEnter ==
  /\ Running
  /\ worker.pc = "fire_enter"
  /\ worker' = IF head = NULL
                 THEN [worker EXCEPT !.pc = "unlock"]
                 ELSE [worker EXCEPT !.pc = "fire",
                                     !.CurrentTime = timespec_gettimeofday(now),
                                     !.node = head]
  /\ WorkerUses({})
  /\ UNCHANGED <<now, queue, cond_mutex, head, timers, fault, callers, wvars>>

\* The entry is due at the pass's CurrentTime (line 401).
Due(T, node) ==
  timespec_compare(worker.CurrentTime, T[node].ExpirationTime) >= 0

\* Lines 403-415 on a due node: the callback, the count and, for a periodic
\* entry, the new deadline and the re-insertion.
FireNode(h, T, node) ==
  LET T1 == [T EXCEPT ![node].FireCount = @ + 1]
  IN IF T[node].Period = 0
       THEN [st |-> "ok", head |-> h, timers |-> T1, touched |-> {node},
             node |-> node]
     ELSE
       LET T2 == [T1 EXCEPT ![node].ExpirationTime =
                              timespec_add_ms(@, T[node].Period)]
           h1 == T[node].next
           T3 == [T2 EXCEPT ![node].next = NULL]
           r == InsertTimerQueueTimer(h1, T3, node)
       IN [st |-> r.st, head |-> r.head, timers |-> r.timers,
           touched |-> r.touched \cup {node}, node |-> r.head]

\* One iteration of the while loop of lines 399-421, or its end.
W_FireLoop ==
  /\ Running
  /\ worker.pc = "fire"
  /\ worker.node # WILD
  /\ \/ /\ worker.node = NULL
        /\ worker' = [worker EXCEPT !.pc = "unlock"]
        /\ WorkerUses({})
        /\ UNCHANGED <<now, queue, cond_mutex, head, timers, fault, callers, wvars>>
     \/ /\ worker.node \in TimerIds
        /\ ~Due(timers, worker.node)
        /\ worker' = [worker EXCEPT !.pc = "unlock"]
        /\ WorkerUses({worker.node})
        /\ UNCHANGED <<now, queue, cond_mutex, head, timers, fault, callers, wvars>>
     \/ /\ worker.node \in TimerIds
        /\ Due(timers, worker.node)
        /\ timers[worker.node].FireCount < MaxFire
        /\ LET r == FireNode(head, timers, worker.node)
              IN IF r.st = "fault" THEN Die
                 ELSE /\ head' = r.head
                      /\ timers' = r.timers
                      /\ worker' = [worker EXCEPT
                           !.node = r.node,
                           !.fired = @ \cup {worker.node}]
                      /\ WorkerUses(r.touched)
                      /\ UNCHANGED <<now, queue, cond_mutex, fault, callers, wvars>>

\* pthread_mutex_unlock, line 450, and back to the top of the loop
W_Unlock ==
  /\ Running
  /\ worker.pc = "unlock"
  /\ cond_mutex' = IF cond_mutex = "destroyed" THEN "destroyed" ELSE "unlocked"
  /\ worker' = WorkerIdle
  /\ WorkerUses({})
  /\ UNCHANGED <<now, queue, head, timers, fault, callers, wvars>>

\* The worker's next step is an invalid access: it reads through WILD, or
\* uses a freed block and the build traps it.
W_Fault ==
  /\ Running
  /\ \/ WorkerTarget = WILD
     \/ Freed(timers, {WorkerTarget}) # {}
     \/ queue = "freed"
  /\ Die

\* ------------------------------------------------------------ the callers
DueTimes == {0, 1, 2}
Periods == {0, 1, 2}
FewDueTimes == {0, 1}
FewPeriods == {0, 1}
MaxDeleteTimers == 2

Allocated(T) == {i \in TimerIds : T[i].alloc # "unalloc"}

\* malloc (line 523) returns the next block never handed out before.
NewTimer(T) == CHOOSE i \in TimerIds \ Allocated(T) :
                 \A j \in TimerIds \ Allocated(T) : i <= j

\* Lines 528-543: the fields CreateTimerQueueTimer writes.  timer->next is
\* not among them: it keeps the value g the block held.
InitTimer(T, id, DueTime, Period, g) ==
  LET StartTime == timespec_add_ms(timespec_gettimeofday(now), DueTime)
  IN [T EXCEPT ![id] = [alloc |-> "live", StartTime |-> StartTime,
                        ExpirationTime |-> StartTime, Period |-> Period,
                        FireCount |-> 0, next |-> g]]

\* BOOL CreateTimerQueueTimer(phNewTimer, TimerQueue, Callback, Parameter,
\* DueTime, Period, Flags), run without interruption, with DueTime and Period
\* drawn from dues and periods, while fewer than limit entries exist.
Register(dues, periods, limit) ==
  /\ Running
  /\ queue = "live"
  /\ Cardinality(Allocated(timers)) < limit
  /\ \E DueTime \in dues, Period \in periods :
       LET id == NewTimer(timers)
       IN \E g \in Garbage :
            LET T0 == InitTimer(timers, id, DueTime, Period, g)
                r == InsertTimerQueueTimer(head, T0, id)
            IN IF r.st = "fault" THEN Die
               ELSE /\ head' = r.head
                    /\ timers' = r.timers
                    /\ UNCHANGED <<now, queue, cond_mutex, worker, fault,
                                   uafTimers, uafQueue, callers, wvars>>

CreateTimerQueueTimer == Register(DueTimes, Periods, MaxTimers)

\* BOOL DeleteTimerQueueTimer(TimerQueue, Timer, CompletionEvent): free(timer)
DeleteTimerQueueTimer ==
  /\ Running
  /\ queue = "live"
  /\ \E id \in TimerIds :
       /\ timers[id].alloc = "live"
       /\ timers' = [timers EXCEPT ![id].alloc = "freed"]
  /\ UNCHANGED <<now, queue, cond_mutex, head, worker, fault,
                 uafTimers, uafQueue, callers, wvars>>

\* BOOL DeleteTimerQueueEx(TimerQueue, CompletionEvent), also DeleteTimerQueue
DeleteTimerQueueEx ==
  /\ Running
  /\ queue = "live"
  /\ queue' = "freed"
  /\ cond_mutex' = "destroyed"
  /\ UNCHANGED <<now, head, timers, worker, fault, uafTimers,
                 uafQueue, callers, wvars>>

\* ------------------------------------------------------ specification
QNext ==
  \/ Tick
  \/ W_Lock
  \/ W_Compute
  \/ W_Timeout
  \/ W_Spurious
  \/ W_FireEnter
  \/ W_FireLoop
  \/ W_Unlock
  \/ W_Fault
  \/ CreateTimerQueueTimer

\* ------------------------------------- CreateTimerQueueTimer, step by step
\* Caller i registers entry i.  Each step is one access to memory that other
\* threads can reach: the function takes no lock (lines 516-548).
CInit == callers = [i \in TimerIds |-> CallerIdle]

Goto(i, pc) == callers' = [callers EXCEPT ![i].pc = pc]

CallerRest == <<now, queue, cond_mutex, worker, fault, uafTimers, uafQueue,
                wvars>>

\* Lines 523-543: malloc and the private fields
C_Start(i) ==
  /\ Running
  /\ callers[i].pc = "idle"
  /\ \E DueTime \in DueTimes, Period \in FewPeriods, g \in Garbage :
       timers' = InitTimer(timers, i, DueTime, Period, g)
  /\ Goto(i, "test_head")
  /\ UNCHANGED <<head, CallerRest>>

\* Line 365: if (!(*pHead))
C_TestHead(i) ==
  /\ Running
  /\ callers[i].pc = "test_head"
  /\ Goto(i, IF head = NULL THEN "set_head" ELSE "load_head")
  /\ UNCHANGED <<head, timers, CallerRest>>

\* Lines 367-368: *pHead = timer; return
C_SetHead(i) ==
  /\ Running
  /\ callers[i].pc = "set_head"
  /\ head' = i
  /\ Goto(i, "done")
  /\ UNCHANGED <<timers, CallerRest>>

\* Line 371: node = *pHead
C_LoadHead(i) ==
  /\ Running
  /\ callers[i].pc = "load_head"
  /\ callers' = [callers EXCEPT ![i].pc = "loop", ![i].node = head]
  /\ UNCHANGED <<head, timers, CallerRest>>

\* Lines 373-379: one test of the while loop
C_Loop(i) ==
  /\ Running
  /\ callers[i].pc = "loop"
  /\ LET node == callers[i].node
     IN /\ node \in TimerIds
        /\ IF timers[node].next = NULL
             THEN Goto(i, "splice")
           ELSE IF timespec_compare(timers[i].ExpirationTime,
                                    timers[node].ExpirationTime) < 0
             THEN Goto(i, "splice")
           ELSE callers' = [callers EXCEPT ![i].node = timers[node].next]
  /\ UNCHANGED <<head, timers, CallerRest>>

\* Lines 381-382: if (node->next) timer->next = node->next->next
C_Splice(i) ==
  /\ Running
  /\ callers[i].pc = "splice"
  /\ LET succ == timers[callers[i].node].next
     IN /\ succ # WILD
        /\ timers' = IF succ = NULL THEN timers
                     ELSE [timers EXCEPT ![i].next = timers[succ].next]
  /\ Goto(i, "link")
  /\ UNCHANGED <<head, CallerRest>>

\* Line 384: node->next = timer, and the return
C_Link(i) ==
  /\ Running
  /\ callers[i].pc = "link"
  /\ timers' = [timers EXCEPT ![callers[i].node].next = i]
  /\ Goto(i, "done")
  /\ UNCHANGED <<head, CallerRest>>

\* The caller's next step reads through WILD.
C_Fault(i) ==
  /\ Running
  /\ \/ callers[i].pc = "loop" /\ callers[i].node = WILD
     \/ callers[i].pc = "splice" /\ timers[callers[i].node].next = WILD
  /\ Die

\* ------------------------------------------------------ waitable timer
MaxExpirations == 2     \* expirations followed after one arming

\* lpDueTime->QuadPart values (100 ns units) and lPeriod values (ms) tried
DueTimes100ns == {-12345678, -5000000, 0, 1}
LPeriods == {-1, 0, 1500}
\* A completion routine, and its argument: NULL or the one non-null value
Pointers == {NULL, 1}

ITimerSpec(v, i) == [it_value |-> v, it_interval |-> i]
ZeroSpec == ITimerSpec(ZeroTime, ZeroTime)

TSAdd(a, b) ==
  LET n == a.tv_nsec + b.tv_nsec
  IN TS(a.tv_sec + b.tv_sec + (n \div NSEC_PER_SEC), n % NSEC_PER_SEC)

\* A kernel timer without a setting
KIdle == [exists |-> FALSE, armed |-> FALSE, value |-> ZeroTime,
          interval |-> ZeroTime]

\* timerfd_settime / timer_settime with flags 0: a zero it_value disarms the
\* timer; otherwise it first expires it_value from now and then every
\* it_interval, if that is not zero.
Program(k, spec) ==
  [k EXCEPT !.armed = (spec.it_value # ZeroTime),
            !.value = spec.it_value,
            !.interval = spec.it_interval]

\* The kernel timer after an expiration.
Reload(k) ==
  IF k.interval = ZeroTime
    THEN [k EXCEPT !.armed = FALSE, !.value = ZeroTime]
    ELSE [k EXCEPT !.value = k.interval]

\* CreateWaitableTimerA, lines 149-162.  timer->tid and timer->timeout are
\* not written there; timeout is zeroed (line 222) before anything reads it.
NewWaitableTimer ==
  [alloc |-> "live", bInit |-> FALSE, fd |-> -1, tid |-> "garbage",
   lPeriod |-> 0, pfnCompletionRoutine |-> NULL,
   lpArgToCompletionRoutine |-> NULL, timeout |-> ZeroSpec]

\* n: the parity of the number of calls so far
NoCall == [due |-> 0, lPeriod |-> 0, ret |-> "none", n |-> 0]

MaxInstallers == 3     \* threads that reach the installation together
InstallThreads == 1..MaxInstallers

WInit ==
  /\ wtimer = NewWaitableTimer
  /\ installers = [i \in InstallThreads |-> "idle"]
  /\ kfd = KIdle
  /\ ktid = KIdle
  /\ g_WaitableTimerSignalHandlerInstalled = FALSE
  /\ wtCall = NoCall
  /\ wtLog = <<>>

\* What the operating system answers during one call: every system call
\* succeeds ("ok"), timerfd_create or timer_create fails ("nocreate"), fcntl
\* fails ("nofcntl"), or every call succeeds and a timer id read from
\* unwritten memory names some other timer of the process ("stray").
Envs == {"ok", "nocreate", "nofcntl", "stray"}

\* The answers that can differ for a call on timer t with routine pfn:
\* nothing is created once bInit is set, and only a routine with an
\* unwritten timer->tid reads a stray id.
EnvsFor(t, pfn) ==
  IF ~t.bInit THEN Envs
  ELSE IF pfn # NULL /\ t.tid = "garbage" THEN {"ok", "stray"}
  ELSE {"ok"}

\* int InitializeWaitableTimer(WINPR_TIMER* timer), lines 90-138, on the
\* machine state m = [timer, kfd, ktid, installed]
InitializeWaitableTimer(m, env) ==
  IF m.timer.lpArgToCompletionRoutine = NULL
    THEN IF env = "nocreate"
           THEN [ret |-> -1,
                 m |-> [m EXCEPT !.timer.fd = -1, !.timer.alloc = "freed"]]
         ELSE IF env = "nofcntl"
           THEN [ret |-> -1, m |-> [m EXCEPT !.timer.fd = 3]]
         ELSE [ret |-> 0,
               m |-> [m EXCEPT !.timer.fd = 3, !.timer.bInit = TRUE,
                               !.kfd.exists = TRUE]]
  ELSE
    LET m1 == [m EXCEPT !.installed = TRUE]
    IN IF env = "nocreate"
         THEN [ret |-> -1, m |-> m1]
       ELSE [ret |-> 0,
             m |-> [m1 EXCEPT !.timer.tid = "tid", !.timer.bInit = TRUE,
                              !.ktid.exists = TRUE]]

\* A conversion that keeps a tenth of the sub-second part
DueToCountdownTenth(due) ==
  IF due < 0
    THEN LET d == due * (-1)
         IN TS(d \div 10000000, (d % 10000000) * 10)
    ELSE ZeroTime

\* Lines 224-236: seconds and nanoseconds of a relative or zero due time
DueToCountdown(due) ==
  IF due < 0
    THEN LET d == due * (-1)
         IN TS(d \div 10000000, (d % 10000000) * 100)
    ELSE ZeroTime

\* Lines 245-246 (also 57-58): the period in seconds and nanoseconds
PeriodToInterval(lPeriod) ==
  TS(lPeriod \div 1000, (lPeriod % 1000) * 1000000)

\* Lines 222 and 243-258: timer->timeout for a due time that is not positive
MakeTimeout(due, lPeriod) ==
  LET interval == IF lPeriod > 0 THEN PeriodToInterval(lPeriod) ELSE ZeroTime
  IN ITimerSpec(IF due # 0 THEN DueToCountdown(due) ELSE interval, interval)

\* Lines 260-279: the timer is programmed through timer->fd when no routine
\* is stored and through timer->tid otherwise.  armed: a timer of this object
\* was programmed.
SetTime(m, env) ==
  IF m.timer.pfnCompletionRoutine = NULL
    THEN IF m.timer.fd # -1 /\ m.kfd.exists
           THEN [ret |-> TRUE, armed |-> TRUE,
                 m |-> [m EXCEPT !.kfd = Program(@, m.timer.timeout)]]
           ELSE [ret |-> FALSE, armed |-> FALSE, m |-> m]
  ELSE IF m.timer.tid = "tid"
    THEN [ret |-> TRUE, armed |-> TRUE,
          m |-> [m EXCEPT !.ktid = Program(@, m.timer.timeout)]]
  ELSE [ret |-> (env = "stray"), armed |-> FALSE, m |-> m]

\* BOOL SetWaitableTimer(hTimer, lpDueTime, lPeriod, pfnCompletionRoutine,
\* lpArgToCompletionRoutine, fResume), lines 186-284, with a valid handle and
\* a non-null lpDueTime, on machine state m
SetWaitableTimerOn(m, due, lPeriod, pfn, arg, env) ==
  IF lPeriod < 0 THEN [ret |-> FALSE, armed |-> FALSE, m |-> m]
  ELSE
    LET m1 == [m EXCEPT !.timer.lPeriod = lPeriod,
                        !.timer.pfnCompletionRoutine = pfn,
                        !.timer.lpArgToCompletionRoutine = arg]
        init == IF m1.timer.bInit THEN [ret |-> 0, m |-> m1]
                ELSE InitializeWaitableTimer(m1, env)
    IN IF init.ret < 0 THEN [ret |-> FALSE, armed |-> FALSE, m |-> init.m]
       ELSE IF due > 0
         THEN [ret |-> FALSE, armed |-> FALSE,
               m |-> [init.m EXCEPT !.timer.timeout = ZeroSpec]]
       ELSE SetTime([init.m EXCEPT !.timer.timeout = MakeTimeout(due, lPeriod)],
                    env)

Machine == [timer |-> wtimer, kfd |-> kfd, ktid |-> ktid,
            installed |-> g_WaitableTimerSignalHandlerInstalled]

SetWaitableTimer ==
  /\ wtimer.alloc = "live"
  /\ \E due \in DueTimes100ns, lPeriod \in LPeriods, pfn \in Pointers,
        arg \in Pointers :
     \E env \in EnvsFor(wtimer, pfn) :
       LET r == SetWaitableTimerOn(Machine, due, lPeriod, pfn, arg, env)
       IN /\ wtimer' = r.m.timer
          /\ kfd' = r.m.kfd
          /\ ktid' = r.m.ktid
          /\ g_WaitableTimerSignalHandlerInstalled' = r.m.installed
          /\ wtCall' = [due |-> due, lPeriod |-> lPeriod,
                        ret |-> IF r.ret THEN "TRUE" ELSE "FALSE",
                        n |-> 1 - wtCall.n]
          /\ wtLog' = IF r.armed THEN <<>> ELSE wtLog
  /\ UNCHANGED <<qvars, callers, installers>>

\* Time from the last arming to the latest expiration
wtSince == IF wtLog = <<>> THEN ZeroTime ELSE wtLog[Len(wtLog)].at

\* The timerfd expires: the descriptor becomes readable.
FdExpire ==
  /\ kfd.exists /\ kfd.armed
  /\ Len(wtLog) < MaxExpirations
  /\ wtLog' = Append(wtLog, [at |-> TSAdd(wtSince, kfd.value),
                             routine |-> FALSE])
  /\ kfd' = Reload(kfd)
  /\ UNCHANGED <<wtimer, ktid, g_WaitableTimerSignalHandlerInstalled, wtCall,
                 qvars, callers, installers>>

\* The POSIX timer expires and SIGALRM is delivered:
\* void WaitableTimerSignalHandler(signum, siginfo, arg), lines 44-66
WaitableTimerSignalHandler ==
  /\ ktid.exists /\ ktid.armed
  /\ g_WaitableTimerSignalHandlerInstalled
  /\ Len(wtLog) < MaxExpirations
  /\ wtLog' = Append(wtLog, [at |-> TSAdd(wtSince, ktid.value),
                             routine |-> wtimer.pfnCompletionRoutine # NULL])
  /\ IF wtimer.pfnCompletionRoutine # NULL /\ wtimer.lPeriod # 0
       THEN /\ wtimer' = [wtimer EXCEPT !.timeout.it_interval =
                                        PeriodToInterval(wtimer.lPeriod)]
            /\ ktid' = Program(ktid, wtimer'.timeout)
       ELSE /\ wtimer' = wtimer
            /\ ktid' = Reload(ktid)
  /\ UNCHANGED <<kfd, g_WaitableTimerSignalHandlerInstalled, wtCall,
                 qvars, callers, installers>>

\* ------------------------------------------------------ specifications

\* The queue, its worker and callers that register entries.
Init == QInit /\ CInit /\ WInit
Next == QNext
Spec == Init /\ [][Next]_vars

\* Callers inside CreateTimerQueueTimer at the same time, while the worker
\* is in its pthread_cond_timedwait on the empty queue.
ConcInit ==
  /\ now = ClockStart
  /\ queue = "live"
  /\ cond_mutex = "unlocked"
  /\ head = NULL
  /\ timers = [i \in TimerIds |-> BlankTimer]
  /\ worker = [WorkerIdle EXCEPT
       !.pc = "wait",
       !.timeout = timespec_add_ms(timespec_gettimeofday(ClockStart), IdleInterval)]
  /\ fault = FALSE
  /\ uafTimers = {}
  /\ uafQueue = FALSE
  /\ CInit
  /\ WInit

ConcNext ==
  \/ \E i \in TimerIds : C_Start(i)
  \/ \E i \in TimerIds : C_TestHead(i)
  \/ \E i \in TimerIds : C_SetHead(i)
  \/ \E i \in TimerIds : C_LoadHead(i)
  \/ \E i \in TimerIds : C_Loop(i)
  \/ \E i \in TimerIds : C_Splice(i)
  \/ \E i \in TimerIds : C_Link(i)
  \/ \E i \in TimerIds : C_Fault(i)

SpecConc == ConcInit /\ [][ConcNext]_vars

\* The queue with cancellation and teardown.

CreateFew == Register(FewDueTimes, FewPeriods, MaxDeleteTimers)

WorkerNext ==
  \/ W_Lock
  \/ W_Compute
  \/ W_Timeout
  \/ W_Spurious
  \/ W_FireEnter
  \/ W_FireLoop
  \/ W_Unlock
  \/ W_Fault

DeleteNext ==
  \/ Tick
  \/ WorkerNext
  \/ CreateFew
  \/ DeleteTimerQueueTimer
  \/ DeleteTimerQueueEx

SpecDelete == Init /\ [][DeleteNext]_vars

\* ================================================================ claims
Live == {i \in TimerIds : timers[i].alloc = "live"}

\* ts plus ms milliseconds, as the mathematical sum
TimePlusMs(ts, ms) ==
  LET n == ts.tv_nsec + (ms % 1000) * NSEC_PER_MSEC
  IN TS(ts.tv_sec + (ms \div 1000) + (n \div NSEC_PER_SEC), n % NSEC_PER_SEC)

\* The chain is sorted by ExpirationTime ascending.
Sorted(c) ==
  \A i, j \in 1..Len(c) :
    i < j => timespec_compare(timers[c[i]].ExpirationTime,
                              timers[c[j]].ExpirationTime) <= 0

\* C1: a Period = 0 entry has its callback invoked exactly once (FireCount
\* never exceeds 1), and once the fire pass that invoked it is over the entry
\* is not reachable from the queue's head.
C1_OneShotFiresOnce ==
  Running =>
    \A id \in Live :
      timers[id].Period = 0 =>
        /\ timers[id].FireCount <= 1
        /\ (timers[id].FireCount = 1 /\ worker.pc # "fire") => id \notin Reachable

\* C2: wherever the worker observes the chain (computing its wake time,
\* starting a fire pass) the chain reachable from head is sorted by
\* ExpirationTime ascending.
C2_ChainSortedWhenObserved ==
  (Running /\ worker.pc \in {"compute", "fire_enter"}) => Sorted(Chain)

\* C3: of two registered entries with distinct deadlines, the one with the
\* earlier deadline has its callback invoked first: the later one has not
\* fired while the earlier one has not.
C3_FiresInDeadlineOrder ==
  Running =>
    \A a, b \in Live :
      (timespec_compare(timers[a].StartTime, timers[b].StartTime) < 0
         /\ timers[b].FireCount >= 1)
      => timers[a].FireCount >= 1

\* C4: an entry with Period > 0 stays in the chain and its deadline is its
\* first deadline plus Period for each firing so far: every firing adds 1 to
\* FireCount and exactly Period to the deadline.
C4_PeriodicStaysAndAdvances ==
  Running =>
    \A id \in Live :
      timers[id].Period > 0 =>
        /\ id \in Reachable
        /\ timers[id].ExpirationTime =
             TimePlusMs(timers[id].StartTime,
                        timers[id].FireCount * timers[id].Period)

\* The waitable timer: arming, and the expirations of its kernel timers.
WTInit ==
  /\ QInit
  /\ head = NULL
  /\ CInit
  /\ WInit

WTNext ==
  \/ SetWaitableTimer
  \/ FdExpire
  \/ WaitableTimerSignalHandler

SpecWT == WTInit /\ [][WTNext]_vars

\* C5: when no caller is inside CreateTimerQueueTimer, the entries of the
\* callers that have returned are exactly the entries reachable from head,
\* each once, and following next from head does not come back to an entry.
Returned == {i \in TimerIds : callers[i].pc = "done"}

C5_NoEntryLost ==
  (Running /\ \A i \in TimerIds : callers[i].pc \in {"idle", "done"}) =>
    /\ Reachable = Returned
    /\ Len(Chain) = Cardinality(Returned)
    /\ ChainEnd(timers, head, {}) # "cycle"

\* C6: an entry released by DeleteTimerQueueTimer is not reachable from the
\* queue's head, and the worker never reads or writes it (so never fires it).
C6_CancelUnlinks ==
  Running =>
    \A id \in TimerIds :
      timers[id].alloc = "freed" => (id \notin Reachable /\ id \notin uafTimers)

\* C7: once DeleteTimerQueueEx has freed the queue, the worker never uses it
\* again (its mutex, its condition variable, its head), and no entry is left
\* unreleased.
C7_TeardownStopsWorker ==
  (Running /\ queue = "freed") => (~uafQueue /\ Live = {})

\* C8: a SetWaitableTimer call with a positive due time returns FALSE and
\* changes nothing: the timer block (bInit, fd, tid, lPeriod, the routine and
\* its argument, timeout) and both kernel timers stay as they were.
C8_AbsoluteDueArmsNothing ==
  [][(wtCall'.n # wtCall.n /\ wtCall'.due > 0) =>
       (wtCall'.ret = "FALSE" /\ wtimer' = wtimer /\ kfd' = kfd /\ ktid' = ktid)]_vars

\* The kernel timer the last call programmed, if it programmed one
Programmed ==
  IF wtimer.pfnCompletionRoutine = NULL THEN kfd
  ELSE IF wtimer.tid = "tid" THEN ktid
  ELSE KIdle

\* C9: after a successful SetWaitableTimer with a negative due time d and
\* period P, the it_value handed to the kernel is |d| * 100 ns, normalised,
\* and the it_interval is P ms; until its first expiration the kernel timer
\* programmed holds exactly these.
C9_RelativeDueConversion ==
  (wtCall.ret = "TRUE" /\ wtCall.due < 0) =>
    LET v == wtimer.timeout.it_value
        i == wtimer.timeout.it_interval
    IN /\ v.tv_sec * NSEC_PER_SEC + v.tv_nsec = (0 - wtCall.due) * 100
       /\ 0 <= v.tv_nsec /\ v.tv_nsec < NSEC_PER_SEC
       /\ i = TS(wtCall.lPeriod \div 1000, (wtCall.lPeriod % 1000) * NSEC_PER_MSEC)
       /\ (Programmed.exists /\ wtLog = <<>>) =>
            (Programmed.armed /\ Programmed.value = v /\ Programmed.interval = i)

C9_Witness ==
  /\ wtCall.ret = "TRUE"
  /\ wtCall.due = -5000000
  /\ wtCall.lPeriod = 1500
  /\ kfd.armed
  /\ kfd.value = TS(0, 500000000)
  /\ kfd.interval = TS(1, 500000000)

\* C10: after a successful SetWaitableTimer with due time 0 the timer fires
\* at once: an expiration is pending or has happened, and the first one
\* comes no time after the call.
C10_ZeroDueFiresImmediately ==
  (wtCall.ret = "TRUE" /\ wtCall.due = 0 /\ Programmed.exists) =>
    IF wtLog = <<>> THEN Programmed.armed ELSE wtLog[1].at = ZeroTime

\* Entries a then b registered in this order (blocks are handed out in
\* ascending order) with the same first deadline and the same period
TiedPairs ==
  {<<a, b>> \in Live \X Live :
     /\ a < b
     /\ timers[a].StartTime = timers[b].StartTime
     /\ timers[a].Period = timers[b].Period}

\* Entry id has its callback invoked in this step.
Fires(id) == timers'[id].FireCount > timers[id].FireCount

\* Entry a has been invoked for the deadline entry b now waits for.
FiredFor(a, b) ==
  IF timers[a].Period = 0
    THEN timers[a].FireCount >= 1
    ELSE timespec_compare(timers[a].ExpirationTime, timers[b].ExpirationTime) > 0

\* Entry b still waits for its callback.
Waits(b) == timers[b].Period = 0 => timers[b].FireCount = 0

\* C11: of two registered entries A then B with identical deadlines, A's
\* callback is invoked before B's at every shared deadline and B's is
\* invoked: B fires only once A has fired for that deadline, and A does not
\* fire again while B still waits for the deadline A has fired for.
C11_TieBreakOrder ==
  [][Running =>
       \A p \in TiedPairs :
         /\ Fires(p[2]) => FiredFor(p[1], p[2])
         /\ Fires(p[1]) => ~(FiredFor(p[1], p[2]) /\ Waits(p[2]))]_vars

\* The queue left idle: it starts empty, time passes only while the worker is
\* blocked in pthread_cond_timedwait before its wake time (the worker runs
\* under SCHED_FIFO at the highest priority, lines 463-466), and up to
\* MaxIdleTimers entries are registered at any moment.
MaxIdleTime == 23    \* clock ticks (ms) the idle queue is followed for
MaxIdleTimers == 1   \* entries registered on the idle queue
IdleDueTimes == {0, 2}
IdlePeriods == {0, 30}

IdleTick ==
  /\ Running
  /\ worker.pc = "wait"
  /\ ~TimeoutReached
  /\ now < ClockStart + MaxIdleTime
  /\ now' = now + 1
  /\ UNCHANGED <<queue, cond_mutex, head, timers, worker, fault,
                 uafTimers, uafQueue, callers, wvars>>

IdleRegister == Register(IdleDueTimes, IdlePeriods, MaxIdleTimers)

IdleNext ==
  \/ IdleTick
  \/ W_Lock
  \/ W_Compute
  \/ W_Timeout
  \/ W_Spurious
  \/ W_FireEnter
  \/ W_FireLoop
  \/ W_Unlock
  \/ IdleRegister

SpecIdle == WTInit /\ [][IdleNext]_vars

\* The first block malloc hands out: on a queue that starts empty, the entry
\* registered on the empty queue.
FirstEntry == 1

\* C12: on an empty chain the worker's wake time is the clock plus 20 ms, so
\* a worker waiting on an empty chain is never more than 20 ms from waking,
\* and the entry registered on the empty queue is never left unfired more
\* than 20 ms past its deadline.
C12_IdleBound ==
  [][Running' =>
       /\ (worker.pc = "compute" /\ worker'.pc = "wait" /\ head = NULL) =>
            worker'.timeout = TimePlusMs(timespec_gettimeofday(now), 20)
       /\ (worker'.pc = "wait" /\ head' = NULL) =>
            timespec_compare(worker'.timeout,
                             TimePlusMs(timespec_gettimeofday(now'), 20)) <= 0
       /\ (timers'[FirstEntry].alloc = "live" /\ timers'[FirstEntry].FireCount = 0) =>
            timespec_compare(timespec_gettimeofday(now'),
                             TimePlusMs(timers'[FirstEntry].StartTime, 20)) <= 0]_vars

\* The entry was registered, due at once, just after the worker went to sleep
\* on the empty chain, and is fired 20 ms late by the pass of the worker's
\* first idle wake.
C12_Witness ==
  /\ Running
  /\ worker.pc = "fire"
  /\ worker.CurrentTime = TimePlusMs(timespec_gettimeofday(ClockStart), 20)
  /\ timers[FirstEntry].FireCount = 1
  /\ timers[FirstEntry].StartTime = timespec_gettimeofday(ClockStart)

\* The place the stated policy gives a new entry in chain c: before the first
\* entry whose deadline is at or after the new entry's, else after the last.
PolicyPos(c, T, timer) ==
  LET hits == {i \in 1..Len(c) :
                 timespec_compare(T[c[i]].ExpirationTime,
                                  T[timer].ExpirationTime) >= 0}
  IN IF hits = {} THEN Len(c) + 1
     ELSE CHOOSE i \in hits : \A j \in hits : i <= j

PolicyInsert(c, T, timer) ==
  LET pos == PolicyPos(c, T, timer)
  IN SubSeq(c, 1, pos - 1) \o <<timer>> \o SubSeq(c, pos, Len(c))

\* The entries CreateTimerQueueTimer registers in this step
Registered == {id \in TimerIds : timers[id].alloc = "unalloc" /\ timers'[id].alloc = "live"}

\* No entry of the chain has the deadline of entry id.
NoTie(T, id) ==
  \A i \in Reachable : T[i].ExpirationTime # T[id].ExpirationTime

\* C13: a registration on a chain that ends in NULL leaves the chain as the
\* stated policy has it: the previous entries in their previous order, and
\* the new entry before the first one whose deadline is not earlier than its
\* own, or last.  Stated for the registrations whose deadline equals none in
\* the chain, where the policy leaves one place only.
C13_InsertPolicy ==
  [][(Running' /\ ChainEnd(timers, head, {}) = "null") =>
       \A id \in Registered :
         NoTie(timers', id) =>
           ChainFrom(timers', head', {}) = PolicyInsert(Chain, timers', id)]_vars

\* C14: a caller changes the chain only while it holds cond_mutex itself:
\* no registration takes place while the worker holds the mutex, and none
\* between two steps of the worker's fire pass.
C14_MutationUnderLock ==
  [][Registered # {} =>
       (cond_mutex # "locked" /\ worker.pc \notin {"fire_enter", "fire"})]_vars

\* What the while loop of FireExpiredTimerQueueTimers reads to decide its
\* next iteration: node, CurrentTime, head, and the deadline, period and link
\* of every entry.
LoopState ==
  <<worker.node, worker.CurrentTime, head,
    [i \in TimerIds |-> <<timers[i].ExpirationTime, timers[i].Period,
                          timers[i].next>>]>>

\* C15: every fire pass terminates.  The loop has no input but LoopState,
\* so an iteration that invokes a callback and goes on with LoopState as it
\* found it is followed by the same iteration for ever: no iteration does so.
C15_FirePassTerminates ==
  [][(Running' /\ worker.pc = "fire" /\ \E id \in TimerIds : Fires(id)) =>
       (worker'.pc # "fire" \/ LoopState' # LoopState)]_vars

\* C16: within one fire pass a periodic entry's callback is invoked at most
\* once: the pass never invokes an entry with Period > 0 that it has invoked
\* already.
C16_NoCatchUp ==
  [][Running' =>
       \A id \in TimerIds :
         (Fires(id) /\ timers[id].Period > 0) => id \notin worker.fired]_vars

\* C17: the call that initialises the timer creates the timerfd if it is
\* given no completion routine and the POSIX timer if it is given one; no
\* later call creates or removes either; and a call that returns TRUE has
\* programmed the one that exists.
C17_BackingFixed ==
  [][wtCall'.n # wtCall.n =>
       /\ (~wtimer.bInit /\ wtimer'.bInit) =>
            /\ kfd'.exists = (wtimer'.pfnCompletionRoutine = NULL)
            /\ ktid'.exists = (wtimer'.pfnCompletionRoutine # NULL)
       /\ wtimer.bInit =>
            (kfd'.exists = kfd.exists /\ ktid'.exists = ktid.exists)
       /\ wtCall'.ret = "TRUE" =>
            IF wtimer'.pfnCompletionRoutine = NULL
              THEN kfd'.exists /\ wtimer'.fd # -1
              ELSE ktid'.exists /\ wtimer'.tid = "tid"]_vars

\* C18: after a successful arming with a completion routine, a relative due
\* time D and a period P > 0, every expiration invokes the routine, and the
\* k-th comes D + (k - 1) * P after the arming.
C18_HandlerKeepsPeriod ==
  (/\ wtCall.ret = "TRUE" /\ wtCall.due < 0 /\ wtCall.lPeriod > 0
   /\ wtimer.pfnCompletionRoutine # NULL /\ wtimer.tid = "tid") =>
    LET d == 0 - wtCall.due
        D == TS(d \div 10000000, (d % 10000000) * 100)
    IN \A k \in 1..Len(wtLog) :
         /\ wtLog[k].routine
         /\ wtLog[k].at = TimePlusMs(D, (k - 1) * wtCall.lPeriod)

\* The queue with long due times and periods: timespec_add_ms on values of
\* ms whose product with 1000000 does and does not fit 32 bits.
BigDueTimes == {0, 4294, 4295, 100000}
BigPeriods == {0, 1, 4295}

AddRegister == Register(BigDueTimes, BigPeriods, MaxDeleteTimers)

AddNext ==
  \/ Tick
  \/ W_Lock
  \/ W_Compute
  \/ W_Timeout
  \/ W_Spurious
  \/ W_FireEnter
  \/ W_FireLoop
  \/ W_Unlock
  \/ AddRegister

SpecAdd == WTInit /\ [][AddNext]_vars

Normalized(ts) == 0 <= ts.tv_nsec /\ ts.tv_nsec < NSEC_PER_SEC

\* C19: timespec_add_ms(ts, ms) is ts plus exactly ms milliseconds,
\* normalised: the deadline of an entry fired with period ms moves from ts to
\* ts + ms, and an entry registered with DueTime = ms gets the deadline of
\* the clock reading plus ms.
C19_AddMsExact ==
  [][Running' =>
       \A id \in TimerIds :
         /\ (Fires(id) /\ timers[id].Period > 0) =>
              /\ timers'[id].ExpirationTime =
                   TimePlusMs(timers[id].ExpirationTime, timers[id].Period)
              /\ Normalized(timers'[id].ExpirationTime)
         /\ id \in Registered =>
              /\ \E ms \in BigDueTimes :
                   timers'[id].StartTime =
                     TimePlusMs(timespec_gettimeofday(now), ms)
              /\ Normalized(timers'[id].StartTime)]_vars

\* ------------- InstallWaitableTimerSignalHandler, step by step (lines 68-86)
\* Threads making their first arm with a completion argument reach the
\* function through InitializeWaitableTimer (line 119); nothing orders them.
InstallRest == <<qvars, callers, wtimer, kfd, ktid, wtCall, wtLog>>

\* The call
I_Call(i) ==
  /\ installers[i] = "idle"
  /\ installers' = [installers EXCEPT ![i] = "test"]
  /\ UNCHANGED <<g_WaitableTimerSignalHandlerInstalled, InstallRest>>

\* Line 70: if (!g_WaitableTimerSignalHandlerInstalled)
I_Test(i) ==
  /\ installers[i] = "test"
  /\ installers' = [installers EXCEPT ![i] =
       IF g_WaitableTimerSignalHandlerInstalled THEN "skipped" ELSE "sigaction"]
  /\ UNCHANGED <<g_WaitableTimerSignalHandlerInstalled, InstallRest>>

\* Lines 72-80: the struct sigaction is filled in and sigaction is called
I_Sigaction(i) ==
  /\ installers[i] = "sigaction"
  /\ installers' = [installers EXCEPT ![i] = "set_flag"]
  /\ UNCHANGED <<g_WaitableTimerSignalHandlerInstalled, InstallRest>>

\* Line 82: g_WaitableTimerSignalHandlerInstalled = TRUE
I_SetFlag(i) ==
  /\ installers[i] = "set_flag"
  /\ g_WaitableTimerSignalHandlerInstalled' = TRUE
  /\ installers' = [installers EXCEPT ![i] = "installed"]
  /\ UNCHANGED InstallRest

InstallNext ==
  \/ \E i \in InstallThreads : I_Call(i)
  \/ \E i \in InstallThreads : I_Test(i)
  \/ \E i \in InstallThreads : I_Sigaction(i)
  \/ \E i \in InstallThreads : I_SetFlag(i)

SpecInstall == WTInit /\ [][InstallNext]_vars

\* The threads that have executed sigaction, and those that have written
\* the flag
CalledSigaction == {i \in InstallThreads : installers[i] \in {"set_flag", "installed"}}
WroteFlag == {i \in InstallThreads : installers[i] = "installed"}

\* C20: however the threads' steps interleave, sigaction is executed once
\* and the flag is written once: never by two threads, and by one as soon as
\* any thread has returned.
C20_InstalledOnce ==
  /\ Cardinality(CalledSigaction) <= 1
  /\ Cardinality(WroteFlag) <= 1
  /\ (\E i \in InstallThreads : installers[i] \in {"skipped", "installed"}) =>
       Cardinality(CalledSigaction) = 1

====
